---- MODULE Spec2Model ----
(***************************************************************************)
(* Model of scripts/visualize.py: the entry point, create_tufte_-          *)
(* visualization and load_data.  Floating point values are fixed-point     *)
(* integers with Scale units per 1.0; tables are indexed by <<y, m, d>>    *)
(* dates.                                                                  *)
(***************************************************************************)
EXTENDS Integers, Sequences, FiniteSets, TLC

VARIABLES
  argv,          \* sys.argv[1:], each argument a sequence of characters
  tempFile,      \* kind of data/processed/temperatures_<year>.txt
  precipFile,    \* kind of data/processed/precipitation_<year>.txt
  humidityFile,  \* kind of data/processed/humidity_<year>.txt
  outWritable,   \* whether the output directory can be created and written
  rng,           \* the seed of np.random in this run
  pc,            \* position of the process
  year,          \* the year of the run
  bundle,        \* the seven items load_data returned
  loadOutcome,   \* "none", "returned" or "raised": how load_data ended
  fallback,      \* whether the except block of load_data ran
  raised,        \* the exception in flight, "none" if there is none
  thrown,        \* the exceptions raised so far, as <<site, class>>
  createResult,  \* "none", "True" or "False": what create_tufte_visualization returned
  output,        \* the files written under the output directory
  exitCode,      \* the exit code of the process, -1 while it runs
  reads          \* number of read_csv calls per input file

vars == <<argv, tempFile, precipFile, humidityFile, outWritable, rng,
          pc, year, bundle, loadOutcome, fallback, raised, thrown, createResult,
          output, exitCode, reads>>

----------------------------------------------------------------------------
(* Bounds of the model *)

\* number of distinct outcomes of the random generator that are explored
NumSeeds == 2

\* number of leading months covered by a file that covers only part of a year
PartialMonths == 2

----------------------------------------------------------------------------
(* Fixed-point arithmetic *)

\* units per 1.0
Scale == 10000

\* 2*pi in Scale units (2 * np.pi)
TwoPi == 62832

\* the function f, held as the table of its values: TLC then evaluates the
\* function once and not at each of its applications
Stored(f) == f @@ << >>

\* a missing cell of a table (NaN)
NaN == -1000000000

\* Taylor polynomial of sin on [0, pi/2], argument and result in Scale units
SinQuarter(x) ==
  LET x2 == (x * x) \div Scale
      t1 == x
      t3 == (t1 * x2) \div (6 * Scale)
      t5 == (t3 * x2) \div (20 * Scale)
      t7 == (t5 * x2) \div (42 * Scale)
      t9 == (t7 * x2) \div (72 * Scale)
  IN  t1 - t3 + t5 - t7 + t9

\* np.sin of an angle >= 0 given in Scale units
Sin(a) ==
  LET x  == a % TwoPi
      pi == TwoPi \div 2
      h  == IF x >= pi THEN x - pi ELSE x
      q  == IF h > pi \div 2 THEN pi - h ELSE h
      s  == SinQuarter(q)
  IN  IF x >= pi THEN 0 - s ELSE s

----------------------------------------------------------------------------
(* The command line *)

\* the year used when no argument is given
DefaultYear == 1980

Digits == {"0", "1", "2", "3", "4", "5", "6", "7", "8", "9"}

DigitValue(c) ==
  CASE c = "0" -> 0 [] c = "1" -> 1 [] c = "2" -> 2 [] c = "3" -> 3 [] c = "4" -> 4
    [] c = "5" -> 5 [] c = "6" -> 6 [] c = "7" -> 7 [] c = "8" -> 8 [] c = "9" -> 9

RECURSIVE DecimalValue(_)
DecimalValue(cs) ==
  IF cs = << >> THEN 0
  ELSE 10 * DecimalValue(SubSeq(cs, 1, Len(cs) - 1)) + DigitValue(cs[Len(cs)])

\* int(text): an optional sign and decimal digits, ValueError otherwise
ParseInt(cs) ==
  LET signed == cs # << >> /\ cs[1] \in {"+", "-"}
      ds     == IF signed THEN Tail(cs) ELSE cs
  IN  IF ds = << >> \/ \E i \in DOMAIN ds : ds[i] \notin Digits
      THEN [ok |-> FALSE, value |-> 0]
      ELSE [ok |-> TRUE,
            value |-> IF signed /\ cs[1] = "-" THEN 0 - DecimalValue(ds) ELSE DecimalValue(ds)]

\* the command lines that are explored
Argvs ==
  { << >>,
    << <<"1", "9", "9", "9">> >>,
    << <<"1", "0", "0", "0", "0">> >>,
    << <<"a", "b", "c">> >> }

\* the years a run can be about
Years ==
  {DefaultYear} \cup {ParseInt(a[1]).value : a \in {b \in Argvs : Len(b) > 0 /\ ParseInt(b[1]).ok}}

\* the seeds of np.random that are explored
Seeds == 0..(NumSeeds - 1)

----------------------------------------------------------------------------
(* Calendar: pd.Timestamp, pd.date_range, .month, .dayofyear *)

IsLeap(y) == (y % 4 = 0 /\ y % 100 # 0) \/ y % 400 = 0

DaysInMonth(y, m) ==
  IF m = 2 THEN (IF IsLeap(y) THEN 29 ELSE 28)
  ELSE IF m \in {4, 6, 9, 11} THEN 30 ELSE 31

DaysInYear(y) == IF IsLeap(y) THEN 366 ELSE 365

\* number of days of a common year before the first day of each month
CumDays == <<0, 31, 59, 90, 120, 151, 181, 212, 243, 273, 304, 334, 365>>

\* number of days of year y before the first day of month m
DaysBefore(y, m) == CumDays[m] + (IF IsLeap(y) /\ m > 2 THEN 1 ELSE 0)

DayOfYear(date) == DaysBefore(date[1], date[2]) + date[3]

MonthOf(date) == date[2]

\* the n-th day of year y as a date
DateOfDay(y, n) ==
  LET m == CHOOSE k \in 1..12 : DaysBefore(y, k) < n /\ n <= DaysBefore(y, k + 1)
  IN  <<y, m, n - DaysBefore(y, m)>>

\* the calendar days of year y (pd.date_range(start, end, freq='D'))
YearDates(y) == {dt \in {y} \X (1..12) \X (1..31) : dt[3] <= DaysInMonth(y, dt[2])}

----------------------------------------------------------------------------
(* Input files: rows of a CSV file.  A date field is a record: valid says  *)
(* whether pd.to_datetime can parse the text, ymd is the date it denotes.  *)

TempFileKinds == {"absent", "full", "partial", "empty", "baddate", "dupkey", "notmax"}
PrecipFileKinds == {"absent", "full", "partial", "empty", "baddate"}
HumidityFileKinds == {"absent", "full", "baddate"}

\* the year whose dates the rows of the files for year y carry
FileDatesYear(y) == IF y \in 1678..2261 THEN y ELSE 1999

\* number of days covered by a file of the given kind
CoveredDays(kind, y) ==
  IF kind \in {"full", "notmax"} THEN DaysInYear(y) ELSE DaysBefore(y, PartialMonths + 1)

FileTmax(date) == (50 + 3 * date[2] + (date[3] % 7)) * Scale
FileTmin(date) == FileTmax(date) - 15 * Scale
FilePrecip(date) == ((date[3] + date[2]) % 4) * 750
FileHumidity(date) == (40 + date[2] + (date[3] % 5)) * Scale

DateText(date) == [valid |-> TRUE, ymd |-> date]
BadDateText == [valid |-> FALSE, ymd |-> <<0, 0, 0>>]

\* temperatures_<year>.txt: rows date,temp,type
TempRows(kind, y) ==
  LET fy   == FileDatesYear(y)
      n    == CoveredDays(kind, fy)
      both == Stored([i \in 1..(2 * n) |->
                 LET dt == DateOfDay(fy, (i + 1) \div 2)
                 IN  IF i % 2 = 1
                     THEN [date |-> DateText(dt), temp |-> FileTmax(dt), type |-> "TMAX"]
                     ELSE [date |-> DateText(dt), temp |-> FileTmin(dt), type |-> "TMIN"]])
  IN  CASE kind = "empty"   -> << >>
        [] kind = "baddate" -> <<[both[1] EXCEPT !.date = BadDateText]>> \o Tail(both)
        [] kind = "dupkey"  -> Append(both, both[1])
        [] kind = "notmax"  -> SelectSeq(both, LAMBDA r : r.type = "TMIN")
        [] OTHER            -> both

\* precipitation_<year>.txt: rows date,precip
PrecipRows(kind, y) ==
  LET fy  == FileDatesYear(y)
      n   == CoveredDays(kind, fy)
      all == Stored([i \in 1..n |->
                LET dt == DateOfDay(fy, i)
                IN  [date |-> DateText(dt), precip |-> FilePrecip(dt)]])
  IN  CASE kind = "empty"   -> << >>
        [] kind = "baddate" -> <<[all[1] EXCEPT !.date = BadDateText]>> \o Tail(all)
        [] OTHER            -> all

\* humidity_<year>.txt: rows date,humidity
HumidityRows(kind, y) ==
  LET fy  == FileDatesYear(y)
      n   == CoveredDays(kind, fy)
      all == Stored([i \in 1..n |->
                LET dt == DateOfDay(fy, i)
                IN  [date |-> DateText(dt), humidity |-> FileHumidity(dt)]])
  IN  CASE kind = "baddate" -> <<[all[1] EXCEPT !.date = BadDateText]>> \o Tail(all)
        [] OTHER            -> all

----------------------------------------------------------------------------
(* Tables (DataFrames indexed by date): index is the set of dates, columns *)
(* the set of column names, cell the value at <<date, column>>, origin     *)
(* where the values come from: "file" or "dummy".  The files that are      *)
(* enumerated carry each date at most once per column.                     *)

EmptyTable == [index |-> {}, columns |-> {}, cell |-> << >>, origin |-> "none"]

\* the table of the given entries [ymd, col, val], keyed by date and column
BuildTable(entries) ==
  LET index   == {entries[i].ymd : i \in DOMAIN entries}
      columns == {entries[i].col : i \in DOMAIN entries}
      byMonth == Stored([m \in 1..12 |-> {i \in DOMAIN entries : MonthOf(entries[i].ymd) = m}])
  IN  [index |-> index, columns |-> columns, origin |-> "file",
       cell |-> Stored([k \in index \X columns |->
                  LET hits == {i \in byMonth[MonthOf(k[1])] :
                                 entries[i].ymd = k[1] /\ entries[i].col = k[2]}
                  IN  IF hits = {} THEN NaN ELSE entries[CHOOSE i \in hits : TRUE].val])]

\* pd.to_datetime(frame['date']) raises on a text that is no date
ToDatetimeRaises(rows) == \E i \in DOMAIN rows : ~rows[i].date.valid

\* DataFrame.pivot raises ValueError on a duplicate (index, column) pair
PivotRaises(rows) ==
  Cardinality({<<rows[i].date.ymd, rows[i].type>> : i \in DOMAIN rows}) # Len(rows)

\* temp_data.pivot(index='date', columns='type', values='temp')
Pivot(rows) ==
  BuildTable(Stored([i \in DOMAIN rows |->
               [ymd |-> rows[i].date.ymd, col |-> rows[i].type, val |-> rows[i].temp]]))

\* frame.set_index('date') of a frame with one value column
SetIndex(rows, col) ==
  BuildTable(Stored([i \in DOMAIN rows |->
               [ymd |-> rows[i].date.ymd, col |-> col, val |-> rows[i][col]]]))

\* the months that occur in the index of a table (the groupby keys)
MonthsOf(t) == {MonthOf(d) : d \in t.index}

RECURSIVE SumOver(_, _)
\* sum of f over the finite set S
SumOver(S, f) ==
  IF S = {} THEN 0
  ELSE LET e == CHOOSE x \in S : TRUE IN f[e] + SumOver(S \ {e}, f)

\* the dates of month m whose cell in column col is not NaN
ValidDates(t, col, m) == {d \in t.index : MonthOf(d) = m /\ t.cell[<<d, col>>] # NaN}

\* the sum of column col over month m, NaN skipped
MonthSum(t, col, m) ==
  LET S == ValidDates(t, col, m)
  IN  SumOver(S, [d \in S |-> t.cell[<<d, col>>]])

\* the mean of column col over month m, NaN skipped
MonthMean(t, col, m) ==
  LET S == ValidDates(t, col, m)
  IN  IF S = {} THEN NaN ELSE MonthSum(t, col, m) \div Cardinality(S)

\* t.groupby(t.index.month)[col].sum()
MonthlySum(t, col) == Stored([m \in MonthsOf(t) |-> MonthSum(t, col, m)])

\* t.groupby(t.index.month)[col].mean()
MonthlyMean(t, col) == Stored([m \in MonthsOf(t) |-> MonthMean(t, col, m)])

\* the mean scaled by 31 days
Times31(series) ==
  Stored([m \in DOMAIN series |-> IF series[m] = NaN THEN NaN ELSE series[m] * 31])

\* series * 30
Times30(series) ==
  Stored([m \in DOMAIN series |-> IF series[m] = NaN THEN NaN ELSE series[m] * 30])

----------------------------------------------------------------------------
(* np.random: the k-th draw of a run is a function of the seed rng of the  *)
(* run; the seeds range over the outcomes that are explored.               *)

Uniform(seed, k, n) == (seed + 3 * k + (k \div 7)) % n

\* np.random.randint(lo, hi): an integer in lo..hi-1
RandInt(seed, k, lo, hi) == lo + Uniform(seed, k, hi - lo)

\* np.random.normal(0, sigma), in Scale units
Normal(seed, k, sigma) == sigma * (Scale \div 2) * (Uniform(seed, k, 9) - 4)

\* np.random.exponential(0.1), in Scale units
Exponential(seed, k) == (Scale \div 20) * Uniform(seed, k, 6)

\* series.clip(lo, hi)
Clip(v, lo, hi) == IF v < lo THEN lo ELSE IF v > hi THEN hi ELSE v

----------------------------------------------------------------------------
(* load_data *)

\* outcomes of pd.Timestamp(f"{y}-01-01") / pd.date_range for year y: every
\* pandas parses the years of the nanosecond range, none a year outside
\* 1..9999, and the versions differ in between
TimestampOutcomes(y) ==
  IF y \in 1678..2261 THEN {"ok"}
  ELSE IF y < 1 \/ y > 9999 THEN {"raise"}
  ELSE {"ok", "raise"}

NoReads == [temp |-> 0, precip |-> 0, humidity |-> 0]

NoBundle ==
  [temp |-> EmptyTable, precip |-> EmptyTable, humidity |-> EmptyTable,
   monthly_tmax_normal |-> << >>, monthly_tmin_normal |-> << >>,
   monthly_precip_normal |-> << >>, monthly_precip_actual |-> << >>]

\* the seasonal factor np.sin(2 * np.pi * day_of_year / 365)
SeasonalFactor(day_of_year) == Sin((TwoPi * day_of_year) \div 365)

\* the base temperatures of a day, before the random variation
TmaxBase(day_of_year) == 75 * Scale + 25 * SeasonalFactor(day_of_year)
TminBase(day_of_year) == 45 * Scale + 25 * SeasonalFactor(day_of_year)

\* dummy humidity drawn from the range of the clipped sinusoid, 10..100
DummyHumidityWide(temp_pivot, seed) ==
  [index |-> temp_pivot.index, columns |-> {"humidity"}, origin |-> "dummy",
   cell |-> Stored([k \in temp_pivot.index \X {"humidity"} |->
              RandInt(seed, DayOfYear(k[1]), 10, 101) * Scale])]

\* humidity_data = DataFrame(index=temp_pivot.index); randint(30, 80, size)
DummyHumidity(temp_pivot, seed) ==
  [index |-> temp_pivot.index, columns |-> {"humidity"}, origin |-> "dummy",
   cell |-> Stored([k \in temp_pivot.index \X {"humidity"} |->
              RandInt(seed, DayOfYear(k[1]), 30, 80) * Scale])]

\* read_csv, to_datetime and pivot of the temperature file: the exception
\* raised ("none" if none) and the table
ReadTemp(kind, y) ==
  IF Len(TempRows(kind, y)) = 0 THEN [exc |-> "EmptyDataError", table |-> EmptyTable]
  ELSE IF ToDatetimeRaises(TempRows(kind, y)) THEN [exc |-> "ValueError", table |-> EmptyTable]
  ELSE IF PivotRaises(TempRows(kind, y)) THEN [exc |-> "ValueError", table |-> EmptyTable]
  ELSE [exc |-> "none", table |-> Pivot(TempRows(kind, y))]

\* read_csv, to_datetime and set_index of a file with one value column
ReadSeries(rows, col) ==
  IF Len(rows) = 0 THEN [exc |-> "EmptyDataError", table |-> EmptyTable]
  ELSE IF ToDatetimeRaises(rows) THEN [exc |-> "ValueError", table |-> EmptyTable]
  ELSE [exc |-> "none", table |-> SetIndex(rows, col)]

\* what reading each input file that exists yields, per kind of file and year
ParsedTemp ==
  Stored([kind \in TempFileKinds \ {"absent"}, y \in Years |-> ReadTemp(kind, y)])
ParsedPrecip ==
  Stored([kind \in PrecipFileKinds \ {"absent"}, y \in Years |->
            ReadSeries(PrecipRows(kind, y), "precip")])
ParsedHumidity ==
  Stored([kind \in HumidityFileKinds \ {"absent"}, y \in Years |->
            ReadSeries(HumidityRows(kind, y), "humidity")])

\* the inner try of load_data: the humidity table
LoadHumidity(y, hf, temp_pivot, seed) ==
  IF hf # "absent"
  THEN IF ParsedHumidity[hf, y].exc = "none"
       THEN ParsedHumidity[hf, y].table
       ELSE DummyHumidity(temp_pivot, seed)
  ELSE DummyHumidity(temp_pivot, seed)

\* the try block of load_data: exc is the exception it raised, "none" if it
\* reached its return statement
LoadPrimary(y, tf, pf, hf, seed) ==
  LET Raise(e, r) == [exc |-> e, bundle |-> NoBundle, reads |-> r]
      r1 == [NoReads EXCEPT !.temp = 1]
      r2 == [r1 EXCEPT !.precip = 1]
      r3 == IF hf = "absent" THEN r2 ELSE [r2 EXCEPT !.humidity = 1]
      temp_pivot == ParsedTemp[tf, y].table
      precip_data == ParsedPrecip[pf, y].table
  IN  IF tf = "absent" THEN Raise("FileNotFoundError", NoReads)
      ELSE IF ParsedTemp[tf, y].exc # "none" THEN Raise(ParsedTemp[tf, y].exc, r1)
      ELSE IF pf = "absent" THEN Raise("FileNotFoundError", r1)
      ELSE IF ParsedPrecip[pf, y].exc # "none" THEN Raise(ParsedPrecip[pf, y].exc, r2)
      ELSE IF "TMAX" \notin temp_pivot.columns THEN Raise("KeyError", r3)
      ELSE IF "TMIN" \notin temp_pivot.columns THEN Raise("KeyError", r3)
      ELSE [exc |-> "none", reads |-> r3,
            bundle |->
              [temp |-> temp_pivot, precip |-> precip_data,
               humidity |-> LoadHumidity(y, hf, temp_pivot, seed),
               monthly_tmax_normal |-> MonthlyMean(temp_pivot, "TMAX"),
               monthly_tmin_normal |-> MonthlyMean(temp_pivot, "TMIN"),
               monthly_precip_normal |-> Times30(MonthlyMean(precip_data, "precip")),
               monthly_precip_actual |-> MonthlySum(precip_data, "precip")]]

\* the except block of load_data once the date range exists: the dummy data
LoadFallback(y, seed) ==
  LET dates == YearDates(y)
      n == DaysInYear(y)
      temp_pivot ==
        [index |-> dates, columns |-> {"TMAX", "TMIN"}, origin |-> "dummy",
         cell |-> Stored([k \in dates \X {"TMAX", "TMIN"} |->
                    IF k[2] = "TMAX"
                    THEN TmaxBase(DayOfYear(k[1])) + Normal(seed, 2 * DayOfYear(k[1]), 5)
                    ELSE TminBase(DayOfYear(k[1])) + Normal(seed, 2 * DayOfYear(k[1]) + 1, 5)])]
      precip_data ==
        [index |-> dates, columns |-> {"precip"}, origin |-> "dummy",
         cell |-> Stored([k \in dates \X {"precip"} |->
                    Exponential(seed, 2 * n + DayOfYear(k[1]))])]
      humidity_data ==
        [index |-> dates, columns |-> {"humidity"}, origin |-> "dummy",
         cell |-> Stored([k \in dates \X {"humidity"} |->
                    Clip(50 * Scale + 20 * Sin((TwoPi * (DayOfYear(k[1]) - 1)) \div 365)
                           + Normal(seed, 3 * n + DayOfYear(k[1]), 10),
                         10 * Scale, 100 * Scale)])]
  IN  [temp |-> temp_pivot, precip |-> precip_data, humidity |-> humidity_data,
       monthly_tmax_normal |-> MonthlyMean(temp_pivot, "TMAX"),
       monthly_tmin_normal |-> MonthlyMean(temp_pivot, "TMIN"),
       monthly_precip_normal |-> Times30(MonthlyMean(precip_data, "precip")),
       monthly_precip_actual |-> MonthlySum(precip_data, "precip")]

\* the dummy data per year that has a date range and seed
DummyData ==
  Stored([y \in {z \in Years : "ok" \in TimestampOutcomes(z)}, seed \in Seeds |->
            LoadFallback(y, seed)])

\* a fallback that keeps the temperature table when only a later step failed
LoadDataKeepLoaded(y, tf, pf, hf, seed) ==
  IF LoadPrimary(y, tf, pf, hf, seed).exc = "none"
  THEN {[outcome |-> "returned", exc |-> "none", fallback |-> FALSE,
         bundle |-> LoadPrimary(y, tf, pf, hf, seed).bundle,
         reads |-> LoadPrimary(y, tf, pf, hf, seed).reads]}
  ELSE {IF o = "ok"
        THEN [outcome |-> "returned", exc |-> "none", fallback |-> TRUE,
              bundle |-> IF tf # "absent" /\ ParsedTemp[tf, y].exc = "none"
                         THEN [DummyData[y, seed] EXCEPT !.temp = ParsedTemp[tf, y].table]
                         ELSE DummyData[y, seed],
              reads |-> LoadPrimary(y, tf, pf, hf, seed).reads]
        ELSE [outcome |-> "raised", exc |-> "ValueError", fallback |-> TRUE,
              bundle |-> NoBundle,
              reads |-> LoadPrimary(y, tf, pf, hf, seed).reads]
        : o \in TimestampOutcomes(y)}

\* load_data(year): the ways the call can end
LoadData(y, tf, pf, hf, seed) ==
  IF LoadPrimary(y, tf, pf, hf, seed).exc = "none"
  THEN {[outcome |-> "returned", exc |-> "none", fallback |-> FALSE,
         bundle |-> LoadPrimary(y, tf, pf, hf, seed).bundle,
         reads |-> LoadPrimary(y, tf, pf, hf, seed).reads]}
  ELSE {IF o = "ok"
        THEN [outcome |-> "returned", exc |-> "none", fallback |-> TRUE,
              bundle |-> DummyData[y, seed],
              reads |-> LoadPrimary(y, tf, pf, hf, seed).reads]
        ELSE [outcome |-> "raised", exc |-> "ValueError", fallback |-> TRUE,
              bundle |-> NoBundle,
              reads |-> LoadPrimary(y, tf, pf, hf, seed).reads]
        : o \in TimestampOutcomes(y)}

----------------------------------------------------------------------------
(* create_tufte_visualization *)

\* the classes a clause "except Exception" catches, among those the program
\* raises; SystemExit derives from BaseException only
ExceptionClasses ==
  {"FileNotFoundError", "EmptyDataError", "ValueError", "KeyError", "OSError"}

\* a clause that catches the missing-file error only
ExceptClauseFileNotFound(e) == e = "FileNotFoundError"

\* except Exception as e
ExceptClause(e) == e \in ExceptionClasses

\* output/nyc_weather_<year>_tufte_style.png
OutputFile(y) == <<"nyc_weather_", y, "_tufte_style.png">>

\* the body of the try block after load_data returned: the exceptions it can
\* end with, "none" for reaching "return True"
Render(y, b, writable) ==
  IF {"TMAX", "TMIN"} \ b.temp.columns # {} THEN {"KeyError"}
  ELSE {IF o = "raise" THEN "ValueError"
        ELSE IF \E m \in 1..12 : m \notin DOMAIN b.monthly_tmax_normal THEN "KeyError"
        ELSE IF \E m \in 1..12 : m \notin DOMAIN b.monthly_tmin_normal THEN "KeyError"
        ELSE IF b.temp.index = {} THEN "ValueError"
        ELSE IF "humidity" \notin b.humidity.columns THEN "KeyError"
        ELSE IF ~writable THEN "OSError"
        ELSE "none"
        : o \in TimestampOutcomes(y)}

----------------------------------------------------------------------------
(* The entry point *)

\* an entry point that ignores the result
ExitCodeAlwaysZero(success) == 0

\* the exit code after create_tufte_visualization returned success
ExitCodeFor(success) == IF success THEN 0 ELSE 1

Init ==
  /\ argv \in Argvs
  /\ tempFile \in TempFileKinds
  /\ precipFile \in PrecipFileKinds
  /\ humidityFile \in HumidityFileKinds
  /\ outWritable \in BOOLEAN
  /\ rng \in Seeds
  /\ pc = "main"
  /\ year = 0
  /\ bundle = NoBundle
  /\ loadOutcome = "none"
  /\ fallback = FALSE
  /\ raised = "none"
  /\ thrown = {}
  /\ createResult = "none"
  /\ output = {}
  /\ exitCode = -1
  /\ reads = NoReads

\* year = int(sys.argv[1]) if len(sys.argv) > 1 else 1980
MainParse ==
  /\ pc = "main"
  /\ LET r == IF Len(argv) > 0 THEN ParseInt(argv[1]) ELSE [ok |-> TRUE, value |-> DefaultYear]
     IN  IF r.ok
         THEN /\ year' = r.value
              /\ pc' = "load"
              /\ UNCHANGED <<raised, thrown>>
         ELSE /\ raised' = "ValueError"
              /\ thrown' = thrown \cup {<<"main", "ValueError">>}
              /\ pc' = "mainExcept"
              /\ UNCHANGED year
  /\ UNCHANGED <<argv, tempFile, precipFile, humidityFile, outWritable, rng, bundle,
                 loadOutcome, fallback, createResult, output, exitCode, reads>>

\* the call of load_data in the try block of create_tufte_visualization
CreateLoad ==
  /\ pc = "load"
  /\ \E r \in LoadData(year, tempFile, precipFile, humidityFile, rng) :
       /\ loadOutcome' = r.outcome
       /\ fallback' = r.fallback
       /\ bundle' = r.bundle
       /\ reads' = r.reads
       /\ raised' = r.exc
       /\ IF r.outcome = "returned"
          THEN pc' = "render" /\ UNCHANGED thrown
          ELSE pc' = "createExcept" /\ thrown' = thrown \cup {<<"load_data", r.exc>>}
  /\ UNCHANGED <<argv, tempFile, precipFile, humidityFile, outWritable, rng, year,
                 createResult, output, exitCode>>

\* the rest of the try block: layout, savefig, return True
CreateRender ==
  /\ pc = "render"
  /\ \E e \in Render(year, bundle, outWritable) :
       IF e = "none"
       THEN /\ output' = output \cup {OutputFile(year)}
            /\ createResult' = "True"
            /\ pc' = "mainCheck"
            /\ UNCHANGED <<raised, thrown>>
       ELSE /\ raised' = e
            /\ thrown' = thrown \cup {<<"render", e>>}
            /\ pc' = "createExcept"
            /\ UNCHANGED <<output, createResult>>
  /\ UNCHANGED <<argv, tempFile, precipFile, humidityFile, outWritable, rng, year, bundle,
                 loadOutcome, fallback, exitCode, reads>>

\* except Exception as e: ... return False
CreateExcept ==
  /\ pc = "createExcept"
  /\ IF ExceptClause(raised)
     THEN /\ createResult' = "False"
          /\ raised' = "none"
          /\ pc' = "mainCheck"
     ELSE /\ pc' = "mainExcept"
          /\ UNCHANGED <<createResult, raised>>
  /\ UNCHANGED <<argv, tempFile, precipFile, humidityFile, outWritable, rng, year, bundle,
                 loadOutcome, fallback, thrown, output, exitCode, reads>>

\* if not success: sys.exit(1); SystemExit passes the except clause of the
\* entry point; otherwise the script ends with code 0
MainCheck ==
  /\ pc = "mainCheck"
  /\ exitCode' = ExitCodeFor(createResult = "True")
  /\ pc' = "exited"
  /\ UNCHANGED <<argv, tempFile, precipFile, humidityFile, outWritable, rng, year, bundle,
                 loadOutcome, fallback, raised, thrown, createResult, output, reads>>

\* except Exception as e: ... sys.exit(1)
MainExcept ==
  /\ pc = "mainExcept"
  /\ exitCode' = 1
  /\ pc' = "exited"
  /\ UNCHANGED <<argv, tempFile, precipFile, humidityFile, outWritable, rng, year, bundle,
                 loadOutcome, fallback, raised, thrown, createResult, output, reads>>

Next ==
  \/ MainParse
  \/ CreateLoad
  \/ CreateRender
  \/ CreateExcept
  \/ MainCheck
  \/ MainExcept

Spec == Init /\ [][Next]_vars

----------------------------------------------------------------------------
(* Properties *)

\* the file kinds that parse and hold both TMAX and TMIN rows
WellFormed == {"full", "partial"}

\* the dates a well-formed file of the given kind holds for year y
FileDates(kind, y) ==
  {DateOfDay(FileDatesYear(y), n) : n \in 1..CoveredDays(kind, FileDatesYear(y))}

CreateReturned == createResult # "none"

\* C1: load_data never fails: whatever the year and the input files, the
\* call returns a bundle and no exception leaves it.
C1_LoadDataNeverFails == loadOutcome # "raised"

\* C2: create_tufte_visualization never propagates an exception: the handler
\* of the entry point only ever sees the entry point's own exception, and once
\* the call has returned no exception is in flight and the result is False
\* exactly when an exception was raised during loading, layout or output.
C2_CreateNeverPropagates ==
  /\ pc = "mainExcept" => \A t \in thrown : t[1] = "main"
  /\ pc \in {"mainCheck", "exited"} /\ thrown \cap ({"load_data", "render"} \X ExceptionClasses) # {}
       => createResult = "False"
  /\ CreateReturned =>
       /\ raised = "none"
       /\ createResult = "False" <=> \E t \in thrown : t[1] \in {"load_data", "render"}

\* a run where the layout raised KeyError and the call returned False
C2_Witness ==
  pc = "mainCheck" /\ createResult = "False" /\ <<"render", "KeyError">> \in thrown

\* C3: the temperature and precipitation tables load_data returns hold
\* exactly the calendar days of the year.
C3_TablesSpanYear ==
  loadOutcome = "returned" =>
    bundle.temp.index = YearDates(year) /\ bundle.precip.index = YearDates(year)

\* C4: with well-formed temperature and precipitation files and a humidity
\* file that is missing or does not parse, load_data does not take the
\* fallback, returns the two tables as the files hold them, and a dummy
\* humidity table over the dates of the temperature table within [30, 80].
C4_HumidityFallbackOnly ==
  (loadOutcome = "returned" /\ tempFile \in WellFormed /\ precipFile \in WellFormed
     /\ humidityFile \in {"absent", "baddate"}) =>
    /\ ~fallback
    /\ bundle.temp.origin = "file" /\ bundle.precip.origin = "file"
    /\ bundle.temp.index = FileDates(tempFile, year)
    /\ \A d \in bundle.temp.index :
         /\ bundle.temp.cell[<<d, "TMAX">>] = FileTmax(d)
         /\ bundle.temp.cell[<<d, "TMIN">>] = FileTmin(d)
    /\ bundle.precip.index = FileDates(precipFile, year)
    /\ \A d \in bundle.precip.index : bundle.precip.cell[<<d, "precip">>] = FilePrecip(d)
    /\ bundle.humidity.origin = "dummy"
    /\ bundle.humidity.index = bundle.temp.index
    /\ \A d \in bundle.humidity.index :
         /\ bundle.humidity.cell[<<d, "humidity">>] >= 30 * Scale
         /\ bundle.humidity.cell[<<d, "humidity">>] <= 80 * Scale

\* a load of well-formed files without humidity file that drew 30 and 79
C4_Witness ==
  /\ loadOutcome = "returned" /\ tempFile = "full" /\ precipFile = "partial"
  /\ humidityFile = "absent"
  /\ \E d \in bundle.humidity.index : bundle.humidity.cell[<<d, "humidity">>] = 30 * Scale
  /\ \E d \in bundle.humidity.index : bundle.humidity.cell[<<d, "humidity">>] = 79 * Scale

\* C5: when the temperature or the precipitation file is absent or raises
\* while it is parsed or reshaped, every table of the returned bundle is dummy
\* data over the whole year, every monthly mapping covers the twelve months,
\* and no file was read more than once.
C5_FallbackAllOrNothing ==
  /\ \A f \in {"temp", "precip", "humidity"} : reads[f] <= 1
  /\ (loadOutcome = "returned" /\ (tempFile \notin WellFormed \/ precipFile \notin WellFormed)) =>
       /\ fallback
       /\ \A t \in {bundle.temp, bundle.precip, bundle.humidity} :
            t.origin = "dummy" /\ t.index = YearDates(year)
       /\ \A mapping \in {bundle.monthly_tmax_normal, bundle.monthly_tmin_normal,
                            bundle.monthly_precip_normal, bundle.monthly_precip_actual} :
            DOMAIN mapping = 1..12

\* a fallback taken although the temperature and humidity files are fine
C5_Witness ==
  /\ loadOutcome = "returned" /\ fallback
  /\ tempFile = "full" /\ precipFile = "absent" /\ humidityFile = "full"
  /\ reads.temp = 1

\* C6: when input files are merely absent (the others complete) and the
\* output directory is writable, the call returns True and the image exists.
C6_MissingDataStillRenders ==
  (CreateReturned /\ outWritable /\ tempFile \in {"absent", "full"}
     /\ precipFile \in {"absent", "full"} /\ humidityFile \in {"absent", "full"}) =>
    createResult = "True" /\ OutputFile(year) \in output

\* C7: the process exits with 0 exactly when create_tufte_visualization
\* returned True, with 1 when it returned False or an exception reached the
\* handler of the entry point, and without argument the year is 1980.
C7_ExitCode ==
  /\ pc = "exited" =>
       /\ exitCode \in {0, 1}
       /\ exitCode = 0 <=> createResult = "True"
       /\ (createResult = "False" \/ <<"main", "ValueError">> \in thrown) => exitCode = 1
  /\ (argv = << >> /\ pc # "main") => year = 1980
  /\ (Len(argv) > 0 /\ ~ParseInt(argv[1]).ok /\ pc # "main") =>
       createResult = "none" /\ pc \in {"mainExcept", "exited"}

\* a run that exited with 1 because the call returned False
C7_Witness == pc = "exited" /\ exitCode = 1 /\ createResult = "False"

\* the total of column col over month m of year y, day by day
DayByDayTotal(t, col, y, m) ==
  LET Upto[d \in 0..31] ==
        IF d = 0 THEN 0
        ELSE Upto[d - 1] + (IF <<y, m, d>> \in t.index THEN t.cell[<<<<y, m, d>>, col>>] ELSE 0)
  IN  Upto[31]

\* C8: in every returned bundle the monthly actual precipitation of a month
\* of the precipitation table is the sum of its daily values in that table,
\* and the monthly normal is the mean daily value times 30.
C8_MonthlyPrecipitation ==
  loadOutcome = "returned" =>
    /\ DOMAIN bundle.monthly_precip_actual = {d[2] : d \in bundle.precip.index}
    /\ DOMAIN bundle.monthly_precip_normal = {d[2] : d \in bundle.precip.index}
    /\ \A m \in {d[2] : d \in bundle.precip.index} :
         LET yrs   == {d[1] : d \in bundle.precip.index}
             total == SumOver(yrs, [y \in yrs |-> DayByDayTotal(bundle.precip, "precip", y, m)])
             count == Cardinality({d \in bundle.precip.index : d[2] = m})
         IN  /\ bundle.monthly_precip_actual[m] = total
             /\ bundle.monthly_precip_normal[m] = 30 * (total \div count)

\* a bundle loaded from files whose January normal differs from the January sum
C8_Witness ==
  /\ loadOutcome = "returned" /\ ~fallback /\ precipFile = "full"
  /\ bundle.monthly_precip_normal[1] # bundle.monthly_precip_actual[1]
  /\ bundle.monthly_precip_actual[1] > 0

\* the dates of the given months in the index of a table
DatesInMonths(t, months) == {d \in t.index : d[2] \in months}

\* C9: in the dummy data summer is warm: the mean base TMAX of the days of
\* June to August exceeds that of December to February, and so does the mean
\* TMAX of the returned table.
C9_SummerWarmerThanWinter ==
  (loadOutcome = "returned" /\ fallback) =>
    LET summer == DatesInMonths(bundle.temp, {6, 7, 8})
        winter == DatesInMonths(bundle.temp, {12, 1, 2})
        base   == [d \in bundle.temp.index |-> TmaxBase(DayOfYear(d))]
        tmax   == [d \in bundle.temp.index |-> bundle.temp.cell[<<d, "TMAX">>]]
    IN  /\ SumOver(summer, base) \div Cardinality(summer)
             > SumOver(winter, base) \div Cardinality(winter)
        /\ SumOver(summer, tmax) \div Cardinality(summer)
             > SumOver(winter, tmax) \div Cardinality(winter)

\* C10: every bundle load_data returns has a normal maximum and a normal
\* minimum for each of the twelve months, so the lookup of the renderer over
\* the month starts of the year finds every month.
C10_NormalsCoverAllMonths ==
  loadOutcome = "returned" =>
    /\ (1..12) \subseteq DOMAIN bundle.monthly_tmax_normal
    /\ (1..12) \subseteq DOMAIN bundle.monthly_tmin_normal

====
